---- MODULE Spec2Model ----
(***************************************************************************)
(* Model of the Spotify catalog client of MoodyServer (SpotifyService):    *)
(* the cached client-credentials token, the structured recommendation      *)
(* request and the text-search fallback of getRecommendations.             *)
(*                                                                         *)
(* One getRecommendations invocation runs at a time.  Each action is one   *)
(* synchronous run of the code between two network awaits.  Tracks are     *)
(* represented by their ids; strings that the code inspects character by   *)
(* character (genre hints) are sequences of one-character strings.         *)
(* Scaled energy/valence are kept in tenths (7 stands for 0.7).            *)
(***************************************************************************)
EXTENDS Integers, Sequences, FiniteSets, TLC

\* ------------------------------------------------------------------ bounds
\* Number of clock ticks the model lets pass.
MaxTicks == 2
\* Milliseconds per clock tick.
TickMs == 30000
\* Longest list of genre hints drawn for the request-building specification.
MaxHints == 3
\* number of concurrent getAccessToken callers
NCallers == 2
\* longest list of hints of the hinted-search specification
MaxRun == 7

\* --------------------------------------------------------- program constants
\* "Refresh 1 minute early"
RefreshMarginMs == 60000
MsPerSecond == 1000
\* limit of the structured request, accumulation threshold and final cut
MaxTracks == 10
\* searchTerms.slice(0, 3)
MaxSearches == 3
\* audioFeatures[index]?.energy || 0.5, in tenths
DefaultFeature == 5
\* .slice(0, 2) of the normalised hints
MaxSeedGenres == 2

\* ----------------------------------------------------------------- helpers
Min(a, b) == IF a < b THEN a ELSE b
Max(a, b) == IF a > b THEN a ELSE b
Range(s) == {s[i] : i \in DOMAIN s}
\* mutant: Math.floor(a / b)
CeilFloor(a, b) == a \div b

\* Math.ceil(a / b) for positive integers
Ceil(a, b) == (a + b - 1) \div b
\* Array.prototype.slice(0, n)
Slice0(s, n) == SubSeq(s, 1, Min(n, Len(s)))
\* x || [] for an optional array (<<>> absent, <<a>> present)
OrEmpty(opt) == IF Len(opt) = 0 THEN <<>> ELSE opt[1]
\* the value null of accessToken
null == "null"

\* ------------------------------------------------------------ genre strings
UpperCase == <<"A","B","C","D","E","F","G","H","I","J","K","L","M",
               "N","O","P","Q","R","S","T","U","V","W","X","Y","Z">>
LowerCase == <<"a","b","c","d","e","f","g","h","i","j","k","l","m",
               "n","o","p","q","r","s","t","u","v","w","x","y","z">>

\* String.prototype.toLowerCase, one character
LowerChar(c) ==
    IF \E i \in DOMAIN UpperCase : UpperCase[i] = c
    THEN LowerCase[CHOOSE i \in DOMAIN UpperCase : UpperCase[i] = c]
    ELSE c

toLowerCase(s) == [i \in DOMAIN s |-> LowerChar(s[i])]

\* mutant: the character class [a-z]
KeptCharNoHyphen(c) == c \in Range(LowerCase)

\* the character class [a-z-]
KeptChar(c) == c \in Range(LowerCase) \cup {"-"}

\* .replace(/[^a-z-]/g, '')
StripChars(s) == SelectSeq(s, KeptChar)

validSpotifyGenres ==
    { <<"a","c","o","u","s","t","i","c">>, <<"b","l","u","e","s">>,
      <<"c","l","a","s","s","i","c","a","l">>, <<"c","o","u","n","t","r","y">>,
      <<"d","a","n","c","e">>, <<"e","l","e","c","t","r","o","n","i","c">>,
      <<"f","o","l","k">>, <<"h","i","p","-","h","o","p">>,
      <<"i","n","d","i","e">>, <<"j","a","z","z">>, <<"l","a","t","i","n">>,
      <<"p","o","p">>, <<"p","u","n","k">>, <<"r","e","g","g","a","e">>,
      <<"r","o","c","k">>, <<"s","o","u","l">>,
      <<"w","o","r","l","d","-","m","u","s","i","c">> }

Pop == <<"p","o","p">>
Dance == <<"d","a","n","c","e">>
Blues == <<"b","l","u","e","s">>
Folk == <<"f","o","l","k">>
Acoustic == <<"a","c","o","u","s","t","i","c">>
Classical == <<"c","l","a","s","s","i","c","a","l">>
Rock == <<"r","o","c","k">>

\* ------------------------------------------------- primary strategy: request
\* Math.max(0, Math.min(1, v / 10)), in tenths
Scale(v) == Max(0, Min(10, v))

\* mutant: the slice is missing
NormalizeHintsNoSlice(g) ==
    SelectSeq([i \in DOMAIN g |-> StripChars(toLowerCase(g[i]))],
              LAMBDA x : x \in validSpotifyGenres)

\* genres.map(lower, strip).filter(whitelist).slice(0, 2)
NormalizeHints(g) ==
    Slice0(SelectSeq([i \in DOMAIN g |-> StripChars(toLowerCase(g[i]))],
                     LAMBDA x : x \in validSpotifyGenres),
           MaxSeedGenres)

\* mutant: the energy test comes before the valence test
QuadrantSeedsEnergyFirst(spotifyEnergy, spotifyValence) ==
    IF spotifyValence >= 7 /\ spotifyEnergy >= 7 THEN <<Pop, Dance>>
    ELSE IF spotifyEnergy <= 3 THEN <<Acoustic, Classical>>
    ELSE IF spotifyValence <= 3 THEN <<Blues, Folk>>
    ELSE <<Pop, Rock>>

\* the quadrant defaults, on the scaled values (tenths)
QuadrantSeeds(spotifyEnergy, spotifyValence) ==
    IF spotifyValence >= 7 /\ spotifyEnergy >= 7 THEN <<Pop, Dance>>
    ELSE IF spotifyValence <= 3 THEN <<Blues, Folk>>
    ELSE IF spotifyEnergy <= 3 THEN <<Acoustic, Classical>>
    ELSE <<Pop, Rock>>

SeedGenres(e, v, g) ==
    LET hinted == IF Len(g) > 0 THEN NormalizeHints(g) ELSE <<>>
        seeded == IF Len(hinted) = 0 THEN QuadrantSeeds(Scale(e), Scale(v))
                  ELSE hinted
    IN  IF Len(seeded) = 0 THEN <<Pop>> ELSE seeded

\* mutant: the two targets are fed from the other input
OfficialParamsSwapped(e, v, g) ==
    [ endpoint |-> "recommendations",
      seed_genres |-> SeedGenres(e, v, g),
      target_energy |-> Scale(v),
      target_valence |-> Scale(e),
      limit |-> MaxTracks ]

\* the URLSearchParams of the structured request
OfficialParams(e, v, g) ==
    [ endpoint |-> "recommendations",
      seed_genres |-> SeedGenres(e, v, g),
      target_energy |-> Scale(e),
      target_valence |-> Scale(v),
      limit |-> MaxTracks ]

\* ------------------------------------------------- fallback strategy: terms
\* mutant: low valence is tested before the low-valence, low-energy corner
MoodTermsValenceFirst(e, v) ==
    IF v >= 7 /\ e >= 7 THEN <<"happy upbeat", "dance party", "energetic">>
    ELSE IF v >= 7 THEN <<"happy", "feel good", "positive">>
    ELSE IF v <= 3 THEN <<"sad", "blues", "heartbreak">>
    ELSE IF v <= 3 /\ e <= 3 THEN <<"sad slow", "melancholy", "emotional">>
    ELSE IF e >= 7 THEN <<"energetic", "workout", "pump up">>
    ELSE IF e <= 3 THEN <<"calm", "relaxing", "chill">>
    ELSE <<"popular", "hits", "good vibes">>

\* the mood phrases pushed first, on the 1..10 inputs
MoodTerms(e, v) ==
    IF v >= 7 /\ e >= 7 THEN <<"happy upbeat", "dance party", "energetic">>
    ELSE IF v >= 7 THEN <<"happy", "feel good", "positive">>
    ELSE IF v <= 3 /\ e <= 3 THEN <<"sad slow", "melancholy", "emotional">>
    ELSE IF v <= 3 THEN <<"sad", "blues", "heartbreak">>
    ELSE IF e >= 7 THEN <<"energetic", "workout", "pump up">>
    ELSE IF e <= 3 THEN <<"calm", "relaxing", "chill">>
    ELSE <<"popular", "hits", "good vibes">>

\* mutant: the hints are pushed before the mood phrases
SearchTermsHintsFirst(e, v, g) ==
    LET phrases == MoodTerms(e, v)
        truthy == SelectSeq(g, LAMBDA x : Len(x) > 0)
    IN  [i \in 1..Len(truthy) |-> [genre |-> toLowerCase(truthy[i])]]
        \o [i \in 1..Len(phrases) |-> [phrase |-> phrases[i]]]

\* the pushed terms: the mood phrases, then each truthy hint lower-cased
SearchTerms(e, v, g) ==
    LET phrases == MoodTerms(e, v)
        truthy == SelectSeq(g, LAMBDA x : Len(x) > 0)
    IN  [i \in 1..Len(phrases) |-> [phrase |-> phrases[i]]]
        \o [i \in 1..Len(truthy) |-> [genre |-> toLowerCase(truthy[i])]]

SearchParams(term, limit) ==
    [ endpoint |-> "search", q |-> term, limit |-> limit ]

\* arr.findIndex(t => t.id === id), 1-based
FindIndex(arr, id) == CHOOSE i \in DOMAIN arr :
                         arr[i] = id /\ \A j \in 1..(i - 1) : arr[j] # id

\* mutant: nothing is filtered out
UniqueTracksAll(arr) == arr

\* allTracks.filter((track, index, arr) => arr.findIndex(same id) === index)
UniqueTracks(arr) ==
    LET keep[i \in 0..Len(arr)] ==
            IF i = 0 THEN <<>>
            ELSE IF FindIndex(arr, arr[i]) = i THEN Append(keep[i - 1], arr[i])
            ELSE keep[i - 1]
    IN  keep[Len(arr)]

\* ------------------------------------------------------------- environment
\* access_token values the token endpoint hands out
Tokens == {"tokA", "tokB"}
\* expires_in values (seconds) the token endpoint declares
ExpiresIn == {60, 120, 3600}
\* statusText of a failed token exchange
StatusTexts == {"Bad Request", "Service Unavailable"}
\* status lines of a failed catalog request
ApiStatuses == {<<"401", "Unauthorized">>, <<"404", "Not Found">>}

ElevenTracks == [i \in 1..11 |-> i]
\* data.tracks of a structured response: absent, or an array of tracks
OfficialBodies == { <<>>, << <<>> >>, << <<1, 2, 3>> >>, << <<4, 4>> >>,
                    << ElevenTracks >> }
\* data.tracks?.items of a search response: absent, or an array of tracks
SearchBodies == { <<>>, << <<2, 3, 4, 5, 6>> >>, << ElevenTracks >> }

\* the audio features the catalog holds for track id: energy and valence in
\* tenths, track 1 with energy 0 and track 11 with valence 0
FeaturesOf(id) == [id |-> id, energy |-> id - 1, valence |-> 11 - id]
\* what the catalog knows of each track: its features, or nothing (null)
FeatureCatalogs ==
    { [id \in 1..11 |-> <<FeaturesOf(id)>>],
      [id \in 1..11 |-> IF id % 2 = 0 THEN <<>> ELSE <<FeaturesOf(id)>>] }
\* data.audio_features of a batch response for ids: absent, or one entry per
\* requested id, in request order
AudioBodies(ids) ==
    { <<>> } \cup { << [i \in DOMAIN ids |-> cat[ids[i]]] >> : cat \in FeatureCatalogs }
\* the id lists of the audio-feature specification
AudioInputs == { <<>>, <<1>>, <<4, 4>>, <<1, 2, 3>> }

\* "jazz!" and "hip-HOP" normalise to whitelisted seeds, "Hip Hop" to "hiphop"
HintJazz == <<"j","a","z","z","!">>
HintHip_Hop == <<"h","i","p","-","H","O","P">>
HintHipHop == <<"H","i","p"," ","H","o","p">>
HintEmpty == <<>>
HintPool == {HintJazz, HintHip_Hop, HintHipHop, HintEmpty}

\* all lists of at most n hints
HintLists(n) == UNION {[1..k -> HintPool] : k \in 0..n}

\* the three builds of the POST /api/mood-entries handler
Variants == {"index", "routes-new", "routes-simple"}
\* request bodies: one that validates, one with energy out of range
Bodies == { [energy |-> 2, valence |-> 9], [energy |-> 11, valence |-> 5] }
\* suggestedGenres of a parsed completion: absent, or a list of hints
Completions == { <<>>, << <<HintJazz, HintHipHop>> >> }

\* the moods and hint lists of the full-flow specification
FlowInputs == { <<2, 2, <<>> >>, <<9, 9, <<HintJazz>> >>,
                <<5, 8, <<HintHipHop, HintEmpty>> >> }
\* the concurrent callers of getAccessToken on the one spotifyService
Callers == 1..NCallers
\* expires_in values (seconds) declared to the concurrent callers
RaceExpiresIn == {30, 60, 120}

\* the hint lists of the hinted-search specification: k times "jazz!" for
\* k up to MaxRun, and lists with an empty hint among them
HintRuns ==
    { [i \in 1..k |-> HintJazz] : k \in 0..MaxRun }
        \cup { <<HintEmpty>>, <<HintEmpty, HintJazz>>,
                <<HintJazz, HintEmpty, HintHip_Hop>> }

\* the moods of the request-building specification
Levels == 1..10

\* ------------------------------------------------------------------- state
VARIABLES
    accessToken,            \* SpotifyService.accessToken
    tokenExpires,           \* SpotifyService.tokenExpires
    issued,                 \* history: when and with what TTL it was cached
    now,                    \* Date.now()
    pc,                     \* "idle" | "tokenWait" | "reqWait"
    op,                     \* the caller of the pending spotifyRequest
    token,                  \* spotifyRequest's local token
    request,                \* parameters of the latest catalog request
    energy, valence, genres,
    recommendationTracks,   \* getRecommendations' local
    searchTerms, maxTracksPerSearch, termIdx, allTracks,
    result,                 \* value returned by getRecommendations
    outcome,                \* "none" | "returned" | "threw"
    authError,              \* message of the error getAccessToken last threw
    hist,                   \* history counters of the current invocation
    trackIds,               \* argument of getAudioFeatures
    audioFeatures,          \* value returned by getAudioFeatures
    audioOutcome,           \* "none" | "returned" | "threw"
    variant,                \* the build whose handler serves the request
    hpc,                    \* 0, or the awaited step of the handler
    validatedData,          \* the handler's validatedData
    moodAnalysis,           \* moodAnalysis.suggestedGenres
    spotifyTracks,          \* the handler's spotifyTracks
    stored,                 \* what the request has persisted
    response,               \* <<>>, or the one response sent
    hlog,                   \* history: calls and persisted writes, in order
    callers,                \* the concurrent getAccessToken calls
    grants                  \* history: tokens the token endpoint has granted

svc == <<accessToken, tokenExpires, issued>>
args == <<energy, valence, genres>>
searchLocals == <<searchTerms, maxTracksPerSearch, termIdx, allTracks>>
recs == <<recommendationTracks, searchLocals, result, outcome>>
audio == <<trackIds, audioFeatures, audioOutcome>>
vars == <<accessToken, tokenExpires, issued, now, pc, op, token, request,
          energy, valence, genres, recommendationTracks, searchTerms,
          maxTracksPerSearch, termIdx, allTracks, result, outcome, authError,
          hist, trackIds, audioFeatures, audioOutcome, variant, hpc,
          validatedData, moodAnalysis, spotifyTracks, stored, response, hlog,
          callers, grants>>
\* the locals of a service invocation
locals == <<op, token, request, args, recs, authError, hist, audio>>
handler == <<variant, hpc, validatedData, moodAnalysis, spotifyTracks, stored,
             response, hlog>>

NoRequest == [endpoint |-> "none"]
NoError == <<>>
hist0 == [ tokenCalls |-> 0, cacheHits |-> 0, tokenExchanges |-> 0,
           officialRequests |-> 0, searchCalls |-> 0, searchRequests |-> 0,
           authFailures |-> 0, exchangesAfterFailure |-> 0,
           failedStatusText |-> <<>>, apiFailed |-> FALSE,
           audioRequests |-> 0 ]
race == <<callers, grants>>
\* a caller that has not called getAccessToken
caller0 == [pc |-> "idle", observed |-> "none", raced |-> FALSE,
            own |-> null, ret |-> null]
stored0 == [moodEntry |-> FALSE, aiReflection |-> FALSE, recommendations |-> <<>>]

Init ==
    /\ accessToken = null
    /\ tokenExpires = 0
    /\ issued = [at |-> 0, ttl |-> 0]
    /\ now = TickMs
    /\ pc = "idle"
    /\ op = "none"
    /\ token = null
    /\ request = NoRequest
    /\ energy = 5 /\ valence = 5 /\ genres = <<>>
    /\ recommendationTracks = <<>>
    /\ searchTerms = <<>>
    /\ maxTracksPerSearch = 0
    /\ termIdx = 0
    /\ allTracks = <<>>
    /\ result = <<>>
    /\ outcome = "none"
    /\ authError = NoError
    /\ hist = hist0
    /\ trackIds = <<>>
    /\ audioFeatures = <<>>
    /\ audioOutcome = "none"
    /\ variant = "index"
    /\ hpc = 0
    /\ validatedData = [energy |-> 5, valence |-> 5]
    /\ moodAnalysis = <<>>
    /\ spotifyTracks = <<>>
    /\ stored = stored0
    /\ response = <<>>
    /\ hlog = <<>>
    /\ callers = [c \in Callers |-> caller0]
    /\ grants = {}

\* ------------------------------------------------------------ getAccessToken
\* mutant: the cache is never consulted
CachedTokenValidNever == FALSE

\* mutant: the expiry instant itself still counts as valid
CachedTokenValidInclusive == accessToken # null /\ now <= tokenExpires

\* the cache test of getAccessToken
CachedTokenValid == accessToken # null /\ now < tokenExpires

\* mutant: no safety margin
ExpiryOfNoMargin(t, expires_in) == t + (expires_in * MsPerSecond)

\* the expiry cached for a token received at time t
ExpiryOf(t, expires_in) == t + (expires_in * MsPerSecond) - RefreshMarginMs

\* mutant: a failure drops the cached token
CacheOnFailureCleared(cached) == null

\* this.accessToken after a failed exchange or a failed catalog request:
\* neither catch block nor spotifyRequest assigns it
CacheOnFailure(cached) == cached

\* the error getAccessToken throws when the exchange failed with error inner
AuthError(inner) == <<"Unable to authenticate with Spotify">>

\* the errors thrown inside getAccessToken's try block
AuthFailed(statusText) == <<"Spotify auth failed: ", statusText>>
FetchFailed == <<"fetch failed">>
JsonFailed == <<"Unexpected token in JSON">>
ApiFailed(st) == <<"Spotify API request failed: ", st[1], st[2]>>

\* ------------------------------------------------------------- control flow
\* mutant: no function on the path wraps its body in try/catch
TryChainNone(o) == <<>>

\* mutant: only the search path is wrapped
TryChainSearchOnly(o) == IF o = "official" THEN <<>> ELSE <<"searchTracks">>

\* mutant: getAudioFeatures has no try/catch of its own
TryChainNoAudio(o) ==
    CASE o = "official" -> <<"tryOfficialRecommendations", "getRecommendations">>
      [] o = "audio" -> <<>>
      [] OTHER -> <<"searchTracks", "searchLoop", "getSearchBasedRecommendations",
                    "getRecommendations">>

\* mutant: tryOfficialRecommendations has no try/catch of its own
TryChainOuterOnly(o) ==
    CASE o = "official" -> <<"getRecommendations">>
      [] o = "audio" -> <<"getAudioFeatures">>
      [] OTHER -> <<"searchTracks", "searchLoop", "getSearchBasedRecommendations",
                    "getRecommendations">>

\* mutant: neither searchTracks nor the loop body catches
TryChainNoSearchCatch(o) ==
    CASE o = "official" -> <<"tryOfficialRecommendations", "getRecommendations">>
      [] o = "audio" -> <<"getAudioFeatures">>
      [] OTHER -> <<"getSearchBasedRecommendations", "getRecommendations">>

\* the try blocks around a spotifyRequest made for o, innermost first
TryChain(o) ==
    CASE o = "official" -> <<"tryOfficialRecommendations", "getRecommendations">>
      [] o = "audio" -> <<"getAudioFeatures">>
      [] OTHER -> <<"searchTracks", "searchLoop", "getSearchBasedRecommendations",
                    "getRecommendations">>

\* the catch block an error thrown by spotifyRequest lands in
CatchSite(o) == IF TryChain(o) = <<>> THEN "caller" ELSE Head(TryChain(o))

\* getRecommendations returns tracks
Return(tracks, h) ==
    /\ pc' = "idle"
    /\ result' = tracks
    /\ outcome' = "returned"
    /\ hist' = h
    /\ UNCHANGED <<op, token, request>>

\* an error leaves getRecommendations
Propagate(h) ==
    /\ pc' = "idle"
    /\ outcome' = "threw"
    /\ hist' = h
    /\ UNCHANGED <<op, token, request, result>>

\* mutant: the catalog fetch is issued twice
FetchedTwice(o, h) ==
    [h EXCEPT !.officialRequests = IF o = "official" THEN @ + 2 ELSE @,
              !.searchRequests = IF o = "search" THEN @ + 2 ELSE @,
              !.audioRequests = IF o = "audio" THEN @ + 2 ELSE @]

\* the catalog fetch of spotifyRequest is issued
Fetched(o, h) ==
    [h EXCEPT !.officialRequests = IF o = "official" THEN @ + 1 ELSE @,
              !.searchRequests = IF o = "search" THEN @ + 1 ELSE @,
              !.audioRequests = IF o = "audio" THEN @ + 1 ELSE @]

\* mutant: a failed exchange is retried once inside getAccessToken
ExchangedWithRetry(h) ==
    [h EXCEPT !.tokenExchanges = @ + 2,
              !.exchangesAfterFailure = IF h.authFailures > 0 THEN @ + 2 ELSE @]

\* the token exchange of getAccessToken is issued
Exchanged(h) ==
    [h EXCEPT !.tokenExchanges = @ + 1,
              !.exchangesAfterFailure = IF h.authFailures > 0 THEN @ + 1 ELSE @]

\* spotifyRequest(req) called for o: getAccessToken, then the catalog fetch
SpotifyRequest(o, req, h) ==
    /\ op' = o
    /\ request' = req
    /\ IF CachedTokenValid
       THEN /\ token' = accessToken
            /\ pc' = "reqWait"
            /\ hist' = Fetched(o, [h EXCEPT !.tokenCalls = @ + 1,
                                            !.cacheHits = @ + 1])
       ELSE /\ token' = token
            /\ pc' = "tokenWait"
            /\ hist' = Exchanged([h EXCEPT !.tokenCalls = @ + 1])

\* searchTracks(term, limit)
SearchTracks(term, limit, h) ==
    SpotifyRequest("search", SearchParams(term, limit),
                   [h EXCEPT !.searchCalls = @ + 1])

\* mutant: the loop iterates over every term
SearchedTermsAll(terms) == terms

\* the terms the for loop iterates over
SearchedTerms(terms) == Slice0(terms, MaxSearches)

\* the for loop of getSearchBasedRecommendations goes on after term termIdx,
\* with acc accumulated; stop says the break was taken
LoopOn(acc, stop, h) ==
    /\ allTracks' = acc
    /\ UNCHANGED <<recommendationTracks, searchTerms, maxTracksPerSearch>>
    /\ IF stop \/ termIdx >= Len(SearchedTerms(searchTerms))
       THEN /\ termIdx' = termIdx
            /\ Return(Slice0(UniqueTracks(acc), MaxTracks), h)
       ELSE /\ termIdx' = termIdx + 1
            /\ UNCHANGED <<result, outcome>>
            /\ SearchTracks(SearchedTerms(searchTerms)[termIdx + 1],
                            maxTracksPerSearch, h)

\* searchTracks returned tracks: push, test the threshold, go on
AfterSearch(tracks, h) ==
    LET acc == allTracks \o tracks
    IN  LoopOn(acc, Len(acc) >= MaxTracks, h)

\* mutant: the primary result counts only when it fills the limit
PrimaryYieldedFull(tracks) == Len(tracks) >= MaxTracks

\* recommendationTracks.length > 0
PrimaryYielded(tracks) == Len(tracks) > 0

\* tryOfficialRecommendations returned tracks
AfterOfficial(tracks, h) ==
    /\ recommendationTracks' = tracks
    /\ IF PrimaryYielded(tracks)
       THEN /\ Return(tracks, h)
            /\ UNCHANGED searchLocals
       ELSE LET terms == SearchTerms(energy, valence, genres)
                limit == Ceil(MaxTracks, Len(terms))
            IN  /\ searchTerms' = terms
                /\ maxTracksPerSearch' = limit
                /\ allTracks' = <<>>
                /\ termIdx' = 1
                /\ UNCHANGED <<result, outcome>>
                /\ SearchTracks(SearchedTerms(terms)[1], limit, h)

\* getAudioFeatures returns features
AudioReturn(features, h) ==
    /\ pc' = "idle"
    /\ audioFeatures' = features
    /\ audioOutcome' = "returned"
    /\ hist' = h
    /\ UNCHANGED <<op, token, request, trackIds, recs>>

\* an error leaves getAudioFeatures
AudioPropagate(h) ==
    /\ pc' = "idle"
    /\ audioOutcome' = "threw"
    /\ hist' = h
    /\ UNCHANGED <<op, token, request, trackIds, audioFeatures, recs>>

\* mutant: the absent entries are filtered out of the answer
AudioResultCompact(body) == SelectSeq(OrEmpty(body), LAMBDA f : Len(f) > 0)

\* data.audio_features || []
AudioResult(body) == OrEmpty(body)

\* spotifyRequest returned the optional array found in the body
Resolved(body, h) ==
    CASE op = "official" -> AfterOfficial(OrEmpty(body), h) /\ UNCHANGED audio
      [] op = "audio" -> AudioReturn(AudioResult(body), h)
      [] OTHER -> AfterSearch(OrEmpty(body), h) /\ UNCHANGED audio

\* spotifyRequest threw
Rejected(h) ==
    LET site == CatchSite(op)
    IN  CASE op = "audio" ->
                 IF site = "getAudioFeatures" THEN AudioReturn(<<>>, h)
                 ELSE AudioPropagate(h)
          [] site = "tryOfficialRecommendations" ->
                 AfterOfficial(<<>>, h) /\ UNCHANGED audio
          [] site = "searchTracks" -> AfterSearch(<<>>, h) /\ UNCHANGED audio
          [] site = "searchLoop" ->
                 LoopOn(allTracks, FALSE, h) /\ UNCHANGED audio
          [] site \in {"getSearchBasedRecommendations", "getRecommendations"} ->
                 /\ Return(<<>>, h)
                 /\ UNCHANGED <<recommendationTracks, searchLocals, audio>>
          [] OTHER ->
                 /\ Propagate(h)
                 /\ UNCHANGED <<recommendationTracks, searchLocals, audio>>

\* ------------------------------------------------------------------ actions
\* time passes while the service is idle or awaits the network
Tick ==
    /\ now < TickMs * (MaxTicks + 1)
    /\ now' = now + TickMs
    /\ UNCHANGED <<svc, pc, op, token, request, args, recommendationTracks,
                   searchLocals, result, outcome, authError, hist, audio,
                   handler, race>>

\* getRecommendations(e, v, g) up to its first network await
GetRecommendations(e, v, g) ==
    /\ pc = "idle"
    /\ energy' = e /\ valence' = v /\ genres' = g
    /\ recommendationTracks' = <<>>
    /\ searchTerms' = <<>> /\ maxTracksPerSearch' = 0
    /\ termIdx' = 0 /\ allTracks' = <<>>
    /\ authError' = NoError
    /\ result' = <<>>
    /\ outcome' = "none"
    /\ SpotifyRequest("official", OfficialParams(e, v, g), hist0)
    /\ UNCHANGED <<svc, now, audio>>

\* mutant: the empty id list is requested like any other
NoIdsNever(ids) == FALSE

\* trackIds.length === 0
NoIds(ids) == Len(ids) = 0

\* the request getAudioFeatures makes for ids
AudioParams(ids) == [endpoint |-> "audio-features", ids |-> ids]

\* getAudioFeatures(ids) up to its return or its network await
GetAudioFeatures(ids) ==
    /\ pc = "idle"
    /\ trackIds' = ids
    /\ audioFeatures' = <<>>
    /\ authError' = NoError
    /\ IF NoIds(ids)
       THEN /\ pc' = "idle"
            /\ op' = "audio"
            /\ audioOutcome' = "returned"
            /\ hist' = hist0
            /\ UNCHANGED <<token, request>>
       ELSE /\ audioOutcome' = "none"
            /\ SpotifyRequest("audio", AudioParams(ids), hist0)
    /\ UNCHANGED <<svc, now, args, recs>>

\* the token endpoint answers 2xx with a token
TokenGranted ==
    /\ pc = "tokenWait"
    /\ \E tk \in Tokens, ttl \in ExpiresIn :
          /\ accessToken' = tk
          /\ tokenExpires' = ExpiryOf(now, ttl)
          /\ issued' = [at |-> now, ttl |-> ttl]
          /\ token' = tk
    /\ pc' = "reqWait"
    /\ hist' = Fetched(op, hist)
    /\ UNCHANGED <<now, op, request, args, recommendationTracks, searchLocals,
                   result, outcome, authError, audio, handler, race>>

\* the token endpoint answers with a non-2xx status
TokenRefused ==
    /\ pc = "tokenWait"
    /\ \E st \in StatusTexts :
          /\ authError' = AuthError(AuthFailed(st))
          /\ Rejected([hist EXCEPT !.authFailures = @ + 1,
                                   !.failedStatusText = <<st>>])
    /\ accessToken' = CacheOnFailure(accessToken)
    /\ UNCHANGED <<tokenExpires, issued, now, args, handler, race>>

\* the token fetch rejects, or its body is not JSON
TokenBroken ==
    /\ pc = "tokenWait"
    /\ \E inner \in {FetchFailed, JsonFailed} :
          /\ authError' = AuthError(inner)
          /\ Rejected([hist EXCEPT !.authFailures = @ + 1,
                                   !.failedStatusText = <<>>])
    /\ accessToken' = CacheOnFailure(accessToken)
    /\ UNCHANGED <<tokenExpires, issued, now, args, handler, race>>

\* the catalog answers 2xx with a JSON body
CatalogAnswered ==
    /\ pc = "reqWait"
    /\ \E body \in (CASE op = "official" -> OfficialBodies
                        [] op = "audio" -> AudioBodies(trackIds)
                        [] OTHER -> SearchBodies) :
          Resolved(body, hist)
    /\ UNCHANGED <<svc, now, args, authError, handler, race>>

\* the catalog answers non-2xx, the fetch rejects, or the body is not JSON
CatalogFailed ==
    /\ pc = "reqWait"
    /\ \E err \in {ApiFailed(st) : st \in ApiStatuses} \cup {FetchFailed, JsonFailed} :
          Rejected([hist EXCEPT !.apiFailed = TRUE])
    /\ accessToken' = CacheOnFailure(accessToken)
    /\ UNCHANGED <<tokenExpires, issued, now, args, authError, handler, race>>

\* a caller invokes getRecommendations with one of the flow inputs
Invoke ==
    /\ pc = "idle"
    /\ \E i \in FlowInputs : GetRecommendations(i[1], i[2], i[3])
    /\ UNCHANGED <<handler, race>>

Next ==
    \/ Tick
    \/ Invoke
    \/ TokenGranted
    \/ TokenRefused
    \/ TokenBroken
    \/ CatalogAnswered
    \/ CatalogFailed

Spec == Init /\ [][Next]_vars

\* The request-building specification: every mood and every hint list of at
\* most MaxHints hints, up to the moment the structured request is issued.
InvokeAny ==
    /\ pc = "idle"
    /\ \E e \in Levels, v \in Levels, g \in HintLists(MaxHints) :
          GetRecommendations(e, v, g)
    /\ UNCHANGED <<handler, race>>

NextSeeds ==
    \/ InvokeAny
    \/ TokenGranted

SpecSeeds == Init /\ [][NextSeeds]_vars

\* The search-term specification: every mood with at most one hint, while
\* the token endpoint is unreachable, so that each invocation goes through
\* the structured attempt into the search fallback and ends empty.
InvokeMood ==
    /\ pc = "idle"
    /\ \E e \in Levels, v \in Levels, g \in HintLists(1) :
          GetRecommendations(e, v, g)
    /\ UNCHANGED <<handler, race>>

NextTerms ==
    \/ InvokeMood
    \/ TokenBroken

SpecTerms == Init /\ [][NextTerms]_vars

\* The hinted-search specification: one mood with the hint lists of
\* HintRuns, against a catalog that answers no more tracks than the limit
\* of the request asks for.
InvokeHinted ==
    /\ pc = "idle"
    /\ \E g \in HintRuns : GetRecommendations(2, 2, g)
    /\ UNCHANGED <<handler, race>>

\* the body cut to the limit the request carries
WithinLimit(body, limit) ==
    IF Len(body) = 0 THEN body ELSE << Slice0(body[1], limit) >>

\* the catalog answers 2xx with at most request.limit tracks
CatalogAnsweredWithinLimit ==
    /\ pc = "reqWait" /\ op \in {"official", "search"}
    /\ \E body \in (IF op = "official" THEN OfficialBodies ELSE SearchBodies) :
          Resolved(WithinLimit(body, request.limit), hist)
    /\ UNCHANGED <<svc, now, args, authError, handler, race>>

NextHints ==
    \/ InvokeHinted
    \/ TokenGranted
    \/ TokenBroken
    \/ CatalogAnsweredWithinLimit
    \/ CatalogFailed

SpecHints == Init /\ [][NextHints]_vars

\* The audio-feature specification: getAudioFeatures on its own, against
\* every answer of the token endpoint and of the catalog.
InvokeAudio ==
    /\ pc = "idle"
    /\ \E ids \in AudioInputs : GetAudioFeatures(ids)
    /\ UNCHANGED <<handler, race>>

NextAudio ==
    \/ Tick
    \/ InvokeAudio
    \/ TokenGranted
    \/ TokenRefused
    \/ TokenBroken
    \/ CatalogAnswered
    \/ CatalogFailed

SpecAudio == Init /\ [][NextAudio]_vars

\* ------------------------------------------ concurrent getAccessToken calls
\* mutant: a caller joins the exchange another caller has in flight
JoinsInFlightIfAny(c) == \E d \in Callers \ {c} : callers[d].pc = "fetching"

\* caller c waits for an exchange in flight instead of starting its own:
\* getAccessToken keeps no pending promise, so never
JoinsInFlight(c) == FALSE

\* caller c calls getAccessToken: the cache test, then the return of the
\* cached token or the start of the exchange
RaceCall(c) ==
    /\ callers[c].pc \in {"idle", "returned", "threw"}
    /\ LET raced == \E d \in Callers \ {c} : callers[d].pc = "fetching"
       IN  callers' = [callers EXCEPT ![c] =
              IF CachedTokenValid
              THEN [pc |-> "returned", observed |-> "hit", raced |-> raced,
                    own |-> null, ret |-> accessToken]
              ELSE [pc |-> IF JoinsInFlight(c) THEN "waiting" ELSE "fetching",
                    observed |-> "miss", raced |-> raced,
                    own |-> null, ret |-> null]]
    /\ UNCHANGED <<svc, now, pc, locals, handler, grants>>

\* the exchange of caller c succeeds: the cache is written and c returns
\* this.accessToken in the same run
RaceGranted(c) ==
    /\ callers[c].pc = "fetching"
    /\ \E tk \in Tokens, ttl \in RaceExpiresIn :
          /\ accessToken' = tk
          /\ tokenExpires' = ExpiryOf(now, ttl)
          /\ issued' = [at |-> now, ttl |-> ttl]
          /\ grants' = grants \cup {tk}
          /\ callers' = [callers EXCEPT ![c].pc = "returned",
                                        ![c].own = tk,
                                        ![c].ret = accessToken']
    /\ UNCHANGED <<now, pc, locals, handler>>

\* the exchange of caller c fails: c throws
RaceFailed(c) ==
    /\ callers[c].pc = "fetching"
    /\ callers' = [callers EXCEPT ![c].pc = "threw"]
    /\ UNCHANGED <<svc, now, pc, locals, handler, grants>>

Call == \E c \in Callers : RaceCall(c)
Granted == \E c \in Callers : RaceGranted(c)
Failed == \E c \in Callers : RaceFailed(c)

NextRace ==
    \/ Tick
    \/ Call
    \/ Granted
    \/ Failed

\* getAccessToken called concurrently on the one service object
SpecRace == Init /\ [][NextRace]_vars

\* ------------------------------------------- POST /api/mood-entries handler
\* mutant: the recommendations are fetched before anything is persisted
HandlerStepsRecsFirst(v) ==
    IF v = "index"
    THEN <<"getRecommendations", "getAudioFeatures", "MoodEntry.create",
           "analyzeMood", "AiReflection.create",
           "SpotifyRecommendation.insertMany">>
    ELSE <<"getRecommendations", "MoodEntry.create", "analyzeMood",
           "AiReflection.create", "SpotifyRecommendation.create">>

\* the awaited calls of the handler of build v, in program order
HandlerSteps(v) ==
    IF v = "index"
    THEN <<"MoodEntry.create", "analyzeMood", "AiReflection.create",
           "getRecommendations", "getAudioFeatures",
           "SpotifyRecommendation.insertMany">>
    ELSE <<"MoodEntry.create", "analyzeMood", "AiReflection.create",
           "getRecommendations", "SpotifyRecommendation.create">>

\* the step the handler awaits
Awaited == HandlerSteps(variant)[hpc]

\* insertMoodEntrySchema.parse accepts the body
Valid(body) == body.energy \in 1..10 /\ body.valence \in 1..10

\* analyzeMood's fallbackGenres
FallbackGenres(v) ==
    IF v >= 7 THEN <<Pop, Dance>>
    ELSE IF v <= 3 THEN <<Blues, Folk>>
    ELSE <<Pop, Rock>>

\* the suggestedGenres analyzeMood can return for data: the completion's, or
\* ["pop"] when it has none, or the fallback when the completion failed
Analyses(data) ==
    { FallbackGenres(data.valence) }
        \cup { IF Len(c) = 0 THEN <<Pop>> ELSE c[1] : c \in Completions }

\* mutant: every build passes (energy, valence, genres)
RecommendationArgsStraight(v, data, analysis) ==
    <<data.energy, data.valence, analysis>>

\* the arguments the handler of build v passes to getRecommendations
RecommendationArgs(v, data, analysis) ==
    IF v = "routes-new" THEN <<data.valence, data.energy, analysis>>
    ELSE <<data.energy, data.valence, analysis>>

\* audioFeatures[index]?.[field] || 0.5, in tenths
FeatureOr(features, index, field) ==
    IF /\ index \in DOMAIN features
       /\ Len(features[index]) > 0
       /\ features[index][1][field] # 0
    THEN features[index][1][field]
    ELSE DefaultFeature

\* the records the handler of build v hands to the database
RecommendationRecords(v, tracks, features, data) ==
    [ i \in DOMAIN tracks |->
        [ spotifyTrackId |-> tracks[i],
          energy |-> IF v = "index" THEN FeatureOr(features, i, "energy")
                     ELSE data.energy,
          valence |-> IF v = "index" THEN FeatureOr(features, i, "valence")
                      ELSE data.valence ] ]

\* the handler goes on to step k, or with no step left sends its response
Continue(v, data, analysis, tracks, st, log, k) ==
    /\ UNCHANGED race
    /\ variant' = v
    /\ validatedData' = data
    /\ moodAnalysis' = analysis
    /\ spotifyTracks' = tracks
    /\ stored' = st
    /\ IF k > Len(HandlerSteps(v))
       THEN /\ hpc' = 0
            /\ hlog' = Append(log, "res.json")
            /\ response' = << [status |-> 200, error |-> "none",
                               recommendations |-> st.recommendations] >>
            /\ UNCHANGED <<svc, now, pc, locals>>
       ELSE /\ hpc' = k
            /\ hlog' = Append(log, HandlerSteps(v)[k])
            /\ response' = <<>>
            /\ CASE HandlerSteps(v)[k] = "getRecommendations" ->
                     LET a == RecommendationArgs(v, data, analysis)
                     IN  GetRecommendations(a[1], a[2], a[3])
                 [] HandlerSteps(v)[k] = "getAudioFeatures" ->
                     GetAudioFeatures(tracks)
                 [] OTHER -> UNCHANGED <<svc, now, pc, locals>>

\* mutant: the catch block deletes what the request has persisted
FailWithRollback(cause, st, log) ==
    /\ UNCHANGED race
    /\ hpc' = 0
    /\ stored' = stored0
    /\ hlog' = Append(log, "res.status(500)")
    /\ response' = << [status |-> 500, error |-> cause,
                       recommendations |-> <<>>] >>
    /\ UNCHANGED <<variant, validatedData, moodAnalysis, spotifyTracks>>
    /\ UNCHANGED <<svc, now, pc, locals>>

\* the catch block of the handler answers 500
Fail(cause, st, log) ==
    /\ UNCHANGED race
    /\ hpc' = 0
    /\ stored' = st
    /\ hlog' = Append(log, "res.status(500)")
    /\ response' = << [status |-> 500, error |-> cause,
                       recommendations |-> <<>>] >>
    /\ UNCHANGED <<variant, validatedData, moodAnalysis, spotifyTracks>>
    /\ UNCHANGED <<svc, now, pc, locals>>

\* a request arrives at the handler of build v: validation, then the first
\* awaited call; the locals of the finished service invocations are dropped
Post ==
    /\ hpc = 0 /\ pc = "idle"
    /\ \E v \in Variants, body \in Bodies :
          IF Valid(body)
          THEN /\ variant' = v
               /\ validatedData' = body
               /\ moodAnalysis' = <<>>
               /\ spotifyTracks' = <<>>
               /\ stored' = stored0
               /\ hpc' = 1
               /\ hlog' = <<HandlerSteps(v)[1]>>
               /\ response' = <<>>
          ELSE /\ variant' = v
               /\ validatedData' = body
               /\ moodAnalysis' = <<>>
               /\ spotifyTracks' = <<>>
               /\ stored' = stored0
               /\ hpc' = 0
               /\ hlog' = <<"res.status(500)">>
               /\ response' = << [status |-> 500, error |-> "validation",
                                  recommendations |-> <<>>] >>
    /\ op' = "none" /\ token' = null /\ request' = NoRequest
    /\ energy' = 5 /\ valence' = 5 /\ genres' = <<>>
    /\ recommendationTracks' = <<>>
    /\ searchTerms' = <<>> /\ maxTracksPerSearch' = 0
    /\ termIdx' = 0 /\ allTracks' = <<>>
    /\ result' = <<>> /\ outcome' = "none"
    /\ authError' = NoError /\ hist' = hist0
    /\ trackIds' = <<>> /\ audioFeatures' = <<>> /\ audioOutcome' = "none"
    /\ UNCHANGED <<svc, now, pc, race>>

\* the awaited steps that write to the database
PersistSteps == {"MoodEntry.create", "AiReflection.create",
                 "SpotifyRecommendation.insertMany",
                 "SpotifyRecommendation.create"}

\* the records of the awaited recommendation write
Pending ==
    RecommendationRecords(variant, spotifyTracks, audioFeatures, validatedData)

\* the awaited database write succeeds
Persisted ==
    /\ hpc > 0 /\ Awaited \in PersistSteps
    /\ LET st == CASE Awaited = "MoodEntry.create" ->
                        [stored EXCEPT !.moodEntry = TRUE]
                    [] Awaited = "AiReflection.create" ->
                        [stored EXCEPT !.aiReflection = TRUE]
                    [] OTHER -> [stored EXCEPT !.recommendations = Pending]
           log == CASE Awaited = "MoodEntry.create" ->
                        Append(hlog, "MoodEntry persisted")
                    [] Awaited = "AiReflection.create" ->
                        Append(hlog, "AiReflection persisted")
                    [] OTHER ->
                        IF Len(Pending) > 0
                        THEN Append(hlog, "SpotifyRecommendation persisted")
                        ELSE hlog
       IN  Continue(variant, validatedData, moodAnalysis, spotifyTracks, st,
                    log, hpc + 1)

\* the awaited database write fails; of the recommendation records a proper
\* prefix may have been written before the failure
PersistFailed ==
    /\ hpc > 0 /\ Awaited \in PersistSteps
    /\ IF Awaited \in {"MoodEntry.create", "AiReflection.create"}
       THEN Fail("persistence", stored, hlog)
       ELSE \E n \in 0..(Len(Pending) - 1) :
               Fail("persistence",
                    [stored EXCEPT !.recommendations = SubSeq(Pending, 1, n)],
                    IF n > 0
                    THEN Append(hlog, "SpotifyRecommendation persisted")
                    ELSE hlog)

\* analyzeMood returns (it catches its own failures)
MoodAnalyzed ==
    /\ hpc > 0 /\ Awaited = "analyzeMood"
    /\ \E analysis \in Analyses(validatedData) :
          Continue(variant, validatedData, analysis, spotifyTracks, stored,
                   hlog, hpc + 1)

\* the awaited getRecommendations has settled
RecommendationsReturned ==
    /\ hpc > 0 /\ Awaited = "getRecommendations"
    /\ pc = "idle" /\ outcome # "none"
    /\ IF outcome = "threw"
       THEN Fail("spotify", stored, hlog)
       ELSE Continue(variant, validatedData, moodAnalysis, result, stored,
                     hlog, hpc + 1)

\* the awaited getAudioFeatures has settled
FeaturesReturned ==
    /\ hpc > 0 /\ Awaited = "getAudioFeatures"
    /\ pc = "idle" /\ audioOutcome # "none"
    /\ IF audioOutcome = "threw"
       THEN Fail("spotify", stored, hlog)
       ELSE Continue(variant, validatedData, moodAnalysis, spotifyTracks,
                     stored, hlog, hpc + 1)

\* the token endpoint settles the pending exchange
TokenSettled == TokenGranted \/ TokenRefused \/ TokenBroken
\* the catalog settles the pending request
CatalogSettled == CatalogAnswered \/ CatalogFailed
\* the database settles the pending write
DatabaseSettled == Persisted \/ PersistFailed

NextHandler ==
    \/ Post
    \/ Persisted
    \/ PersistFailed
    \/ MoodAnalyzed
    \/ RecommendationsReturned
    \/ FeaturesReturned
    \/ TokenGranted
    \/ TokenRefused
    \/ TokenBroken
    \/ CatalogAnswered
    \/ CatalogFailed

SpecHandler == Init /\ [][NextHandler]_vars

\* Every promise the handler awaits settles: the token endpoint, the catalog,
\* the database and the completion each answer or fail, and the continuation
\* of a settled await runs.
SpecHandlerFair ==
    /\ SpecHandler
    /\ WF_vars(TokenSettled)
    /\ WF_vars(CatalogSettled)
    /\ WF_vars(DatabaseSettled)
    /\ WF_vars(MoodAnalyzed)
    /\ WF_vars(RecommendationsReturned)
    /\ WF_vars(FeaturesReturned)

\* ================================================================== claims
Finished == pc = "idle" /\ outcome # "none"
NoDuplicates(seq) == \A i, j \in DOMAIN seq : seq[i] = seq[j] => i = j

\* C1: whatever the catalog answers, the sequence getRecommendations returns
\* has at most 10 tracks and no two tracks with the same id.
C1_ResultBoundedUnique ==
    Finished => Len(result) <= 10 /\ NoDuplicates(result)

\* C2: the search fallback runs only when the structured strategy yielded no
\* track: a non-empty primary result is returned as is and no search call or
\* search request is made in that invocation; when a search call was made,
\* the primary result was empty.
C2_FallbackOnlyOnEmptyPrimary ==
    /\ Len(recommendationTracks) > 0 =>
          /\ Finished /\ outcome = "returned"
          /\ result = recommendationTracks
          /\ hist.searchCalls = 0 /\ hist.searchRequests = 0
    /\ hist.searchCalls > 0 => Len(recommendationTracks) = 0

C2_Witness ==
    Finished /\ Len(recommendationTracks) > 0 /\ hist.officialRequests = 1

\* C3: when the structured strategy and every search of the fallback yield no
\* track, getRecommendations completes normally with the empty sequence.
C3_BothEmptyReturnsEmpty ==
    (Finished /\ Len(recommendationTracks) = 0 /\ Len(allTracks) = 0) =>
        /\ outcome = "returned"
        /\ result = <<>>
        /\ hist.searchCalls = MaxSearches

C3_Witness ==
    /\ Finished /\ result = <<>>
    /\ hist.officialRequests = 1 /\ hist.searchRequests = MaxSearches
    /\ ~hist.apiFailed /\ hist.authFailures = 0

\* C4: no failure of the token exchange or of a catalog request leaves
\* getRecommendations as an exception: every invocation that ends, ends by
\* returning a sequence of tracks.
C4_NeverThrows ==
    /\ outcome # "threw"
    /\ Finished => outcome = "returned" /\ result \in Seq(1..11)

C4_Witness ==
    /\ Finished /\ outcome = "returned"
    /\ hist.authFailures > 0 /\ hist.apiFailed

\* a step in which getAccessToken is called
TokenCallStep ==
    \/ pc = "idle" /\ pc' # "idle"
    \/ pc # "idle" /\ hist'.tokenCalls = hist.tokenCalls + 1

\* C5: a getAccessToken call made while a token is cached and now < its
\* expiry returns the cached value, leaves the cache as it is and issues no
\* token exchange.
C5_CachedTokenServedWithoutExchange ==
    [][ (TokenCallStep /\ accessToken # null /\ now < tokenExpires) =>
           /\ token' = accessToken
           /\ pc' = "reqWait"
           /\ accessToken' = accessToken /\ tokenExpires' = tokenExpires
           /\ hist'.tokenExchanges = (IF pc = "idle" THEN 0 ELSE hist.tokenExchanges)
      ]_vars

\* two calls, the second inside the validity window: one exchange in total
C5_Witness ==
    /\ hist.tokenCalls = 2 /\ hist.tokenExchanges = 1 /\ hist.cacheHits = 1
    /\ token = accessToken

\* C6: the cached expiry is the time the token was received plus the declared
\* TTL minus 60 s, and a token is served from the cache only before it.
C6_ServedBeforeMarginExpiry ==
    [][ /\ accessToken' # null =>
              tokenExpires' = issued'.at + issued'.ttl * 1000 - 60000
        /\ (TokenCallStep /\ pc' = "reqWait") =>
              now < issued.at + issued.ttl * 1000 - 60000
      ]_vars

C6_Witness ==
    hist.cacheHits >= 1 /\ issued.ttl = 120 /\ now > issued.at

\* C7: when the token endpoint answers with a non-success status, the error
\* getAccessToken throws carries the status text of that response.
C7_AuthErrorCarriesStatusText ==
    Len(hist.failedStatusText) > 0 =>
        hist.failedStatusText[1] \in Range(authError)

\* C8 (as stated): after a token exchange has failed, no further token
\* exchange is issued before getRecommendations returns, and it returns the
\* empty sequence.
C8_NoExchangeAfterFailure ==
    /\ hist.exchangesAfterFailure = 0
    /\ (Finished /\ hist.authFailures > 0) => result = <<>>

\* C8 (amended): a getAccessToken call issues at most one exchange, made only
\* on a cache miss, and each catalog call of the invocation (the structured
\* request and at most 3 searches) makes one getAccessToken call; so one
\* invocation issues at most 4 exchanges, and it returns the empty sequence
\* when every one of its getAccessToken calls failed.
C8_OneExchangePerCatalogCall ==
    /\ hist.tokenCalls = hist.cacheHits + hist.tokenExchanges
    /\ pc # "idle" => hist.tokenCalls = 1 + hist.searchCalls
    /\ hist.tokenExchanges <= 1 + MaxSearches
    /\ hist.authFailures <= hist.tokenExchanges
    /\ (Finished /\ hist.authFailures = hist.tokenCalls) => result = <<>>

C8_Witness ==
    /\ Finished /\ result = <<>>
    /\ hist.authFailures = 4 /\ hist.exchangesAfterFailure = 3

\* C9: every structured recommendation request carries at least 1 and at most
\* 2 seed genres, for every mood and every list of genre hints.
C9_SeedGenresOneOrTwo ==
    request.endpoint = "recommendations" =>
        Len(request.seed_genres) >= 1 /\ Len(request.seed_genres) <= 2

\* a request issued for three hints that all normalise to whitelisted seeds
C9_Witness ==
    /\ pc = "reqWait" /\ hist.officialRequests = 1
    /\ request.endpoint = "recommendations"
    /\ genres = <<HintJazz, HintHip_Hop, HintJazz>>
    /\ Len(request.seed_genres) = 2

\* C10: one invocation of the search fallback issues at most 3 text-search
\* requests, whatever the number of terms and whatever the results are.
C10_AtMostThreeSearches ==
    hist.searchRequests <= 3 /\ hist.searchCalls <= 3

\* three searches made although four terms were derived
C10_Witness ==
    hist.searchRequests = 3 /\ Len(searchTerms) > 3

\* getAudioFeatures has returned or thrown
AudioFinished == op = "audio" /\ pc = "idle" /\ audioOutcome # "none"

\* C11: a call of getAudioFeatures with the empty id list returns the empty
\* list in the same step, makes no token call, no token exchange and no
\* catalog request, and leaves the cached token and its expiry as they were.
C11_EmptyIdsNoNetwork ==
    [][ (pc = "idle" /\ now' = now /\ op' = "audio" /\ trackIds' = <<>>) =>
          /\ pc' = "idle"
          /\ audioOutcome' = "returned"
          /\ audioFeatures' = <<>>
          /\ hist'.tokenCalls = 0
          /\ hist'.tokenExchanges = 0
          /\ hist'.audioRequests = 0
          /\ accessToken' = accessToken
          /\ tokenExpires' = tokenExpires ]_vars

\* an empty call answered while a token is cached
C11_Witness ==
    /\ AudioFinished /\ trackIds = <<>> /\ audioFeatures = <<>>
    /\ hist.tokenCalls = 0 /\ accessToken # null

\* C12: when no hint survives normalisation (the list is empty or holds only
\* "Hip Hop" and empty hints), the seed genres of the structured request are
\* [pop, dance] for valence >= 7 and energy >= 7, else [blues, folk] for
\* valence <= 3, else [acoustic, classical] for energy <= 3, else [pop, rock].
C12_QuadrantSeedGenres ==
    (/\ request.endpoint = "recommendations"
     /\ \A i \in DOMAIN genres : genres[i] \in {HintHipHop, HintEmpty}) =>
        request.seed_genres =
            IF valence >= 7 /\ energy >= 7 THEN <<Pop, Dance>>
            ELSE IF valence <= 3 THEN <<Blues, Folk>>
            ELSE IF energy <= 3 THEN <<Acoustic, Classical>>
            ELSE <<Pop, Rock>>

\* energy 9, valence 9 and no hint: [pop, dance]
C12_Witness ==
    /\ request.endpoint = "recommendations"
    /\ energy = 9 /\ valence = 9 /\ genres = <<>>
    /\ request.seed_genres = <<Pop, Dance>>

\* the seven phrase lists of the search fallback
PhraseLists ==
    { <<"happy upbeat", "dance party", "energetic">>,
      <<"happy", "feel good", "positive">>,
      <<"sad slow", "melancholy", "emotional">>,
      <<"sad", "blues", "heartbreak">>,
      <<"energetic", "workout", "pump up">>,
      <<"calm", "relaxing", "chill">>,
      <<"popular", "hits", "good vibes">> }

\* the mood phrases at the head of the search terms
Phrases == <<searchTerms[1].phrase, searchTerms[2].phrase, searchTerms[3].phrase>>

\* C13: the search terms of the fallback start with one of the seven fixed
\* three-phrase lists, chosen by the mood alone: [sad slow, melancholy,
\* emotional] for valence <= 3 and energy <= 3, [happy upbeat, dance party,
\* energetic] for valence >= 7 and energy >= 7, and [popular, hits, good
\* vibes] when both values lie strictly between 3 and 7.
C13_MoodPhrasesByQuadrant ==
    Len(searchTerms) > 0 =>
        /\ Len(searchTerms) >= 3
        /\ Phrases \in PhraseLists
        /\ (valence <= 3 /\ energy <= 3) =>
               Phrases = <<"sad slow", "melancholy", "emotional">>
        /\ (valence >= 7 /\ energy >= 7) =>
               Phrases = <<"happy upbeat", "dance party", "energetic">>
        /\ (3 < valence /\ valence < 7 /\ 3 < energy /\ energy < 7) =>
               Phrases = <<"popular", "hits", "good vibes">>

\* the fallback has derived the terms of the low-valence, low-energy corner
C13_Witness ==
    /\ op = "search" /\ hist.searchCalls > 0
    /\ energy = 2 /\ valence = 3
    /\ Len(searchTerms) = 3
    /\ Phrases = <<"sad slow", "melancholy", "emotional">>

\* C14: when the structured request fails at the catalog (a non-2xx answer
\* such as 404, a rejected fetch or an unparsable body), the primary strategy
\* yields the empty sequence, nothing is thrown, and the same invocation goes
\* on with the first searchTracks call of the fallback.
C14_OfficialFailureFallsBack ==
    [][ (pc = "reqWait" /\ op = "official" /\ hist'.apiFailed) =>
          /\ outcome' = "none"
          /\ recommendationTracks' = <<>>
          /\ op' = "search"
          /\ pc' \in {"tokenWait", "reqWait"}
          /\ Len(searchTerms') >= 3
          /\ termIdx' = 1
          /\ hist'.searchCalls = 1 ]_vars

\* the structured request has failed and the first search is pending
C14_Witness ==
    /\ hist.apiFailed /\ hist.officialRequests = 1
    /\ op = "search" /\ pc = "reqWait" /\ termIdx = 1
    /\ hist.searchCalls = 1 /\ hist.searchRequests = 1
    /\ outcome = "none"

\* C15: on the structured request target_energy is the energy input scaled
\* to [0, 1] and target_valence the valence input scaled to [0, 1] (both in
\* tenths here): each equals its own input and lies between 0 and 10.
C15_TargetsScaled ==
    request.endpoint = "recommendations" =>
        /\ request.target_energy = energy
        /\ request.target_valence = valence
        /\ request.target_energy \in 0..10
        /\ request.target_valence \in 0..10

\* a request built for a mood whose two values differ
C15_Witness ==
    /\ request.endpoint = "recommendations"
    /\ energy = 3 /\ valence = 8
    /\ request.target_energy = 3 /\ request.target_valence = 8

\* the lower-cased hint stripped of every character outside [a-z-]
NormalForm(h) ==
    CASE h = HintJazz -> <<"j","a","z","z">>
      [] h = HintHip_Hop -> <<"h","i","p","-","h","o","p">>
      [] h = HintHipHop -> <<"h","i","p","h","o","p">>
      [] OTHER -> <<>>

\* the normal forms of the hints that are whitelisted, in caller order
Survivors(g) ==
    SelectSeq([i \in DOMAIN g |-> NormalForm(g[i])],
              LAMBDA x : x \in validSpotifyGenres)

\* C19: each hint is normalised to its lower-cased form without the
\* characters outside [a-z-]; when at least one normalised hint is in the
\* whitelist, the seed genres are the first two whitelisted ones in caller
\* order; and every seed genre of a structured request is in the whitelist.
C19_HintsNormalised ==
    request.endpoint = "recommendations" =>
        /\ \A i \in DOMAIN genres :
               StripChars(toLowerCase(genres[i])) = NormalForm(genres[i])
        /\ Len(Survivors(genres)) > 0 =>
               request.seed_genres =
                   SubSeq(Survivors(genres), 1, Min(2, Len(Survivors(genres))))
        /\ \A i \in DOMAIN request.seed_genres :
               request.seed_genres[i] \in validSpotifyGenres

\* three hints, the middle one not whitelisted: the other two are the seeds
C19_Witness ==
    /\ request.endpoint = "recommendations"
    /\ genres = <<HintHip_Hop, HintHipHop, HintJazz>>
    /\ request.seed_genres = << <<"h","i","p","-","h","o","p">>,
                               <<"j","a","z","z">> >>

\* the position of the first occurrence of id in seq
FirstAt(seq, id) ==
    CHOOSE i \in DOMAIN seq : seq[i] = id /\ \A j \in 1..(i - 1) : seq[j] # id

\* C20: the result of the search fallback has no repeated id, holds only
\* accumulated ids, in the order of their first occurrences, and is the
\* first 10 distinct accumulated ids (all of them when there are fewer).
C20_DedupedThenTruncated ==
    (Finished /\ hist.searchCalls > 0) =>
        /\ NoDuplicates(result)
        /\ Range(result) \subseteq Range(allTracks)
        /\ Len(result) = Min(10, Cardinality(Range(allTracks)))
        /\ \A i, j \in DOMAIN result :
               i < j => FirstAt(allTracks, result[i]) < FirstAt(allTracks, result[j])
        /\ \A id \in Range(allTracks) :
               (\E k \in DOMAIN result :
                    FirstAt(allTracks, id) < FirstAt(allTracks, result[k]))
               => id \in Range(result)

\* sixteen tracks accumulated, eleven distinct ones, ten returned
C20_Witness ==
    /\ Finished /\ hist.searchCalls > 0
    /\ Len(allTracks) = 16
    /\ Cardinality(Range(allTracks)) = 11
    /\ Len(result) = 10

\* features has one position per id, holding that id's features or nothing
Aligned(features, ids) ==
    /\ Len(features) = Len(ids)
    /\ \A i \in DOMAIN ids : features[i] = <<>> \/ features[i][1].id = ids[i]

\* C17 (as claimed): getAudioFeatures never throws and, whatever the upstream
\* outcome, returns one position per input id, position i holding the
\* features of trackIds[i] or an absent marker.
C17_AlignedWithInput ==
    /\ audioOutcome # "threw"
    /\ AudioFinished => Aligned(audioFeatures, trackIds)

\* C17 (amended): getAudioFeatures never throws; when the token exchange or
\* the batch request failed it returns the empty list whatever the input;
\* otherwise it returns the empty list (no audio_features in the body) or
\* the received array, which has one position per input id.
C17_AlignedOrEmpty ==
    /\ audioOutcome # "threw"
    /\ AudioFinished =>
          IF hist.authFailures > 0 \/ hist.apiFailed
          THEN audioFeatures = <<>>
          ELSE audioFeatures = <<>> \/ Aligned(audioFeatures, trackIds)

\* three ids asked, the batch request failed, nothing returned
C17_Witness ==
    /\ AudioFinished /\ audioOutcome = "returned"
    /\ Len(trackIds) = 3 /\ hist.apiFailed
    /\ audioFeatures = <<>>

\* the handler has sent its response
Answered == hpc = 0 /\ Len(response) = 1

\* the positions of event in the handler's log
At(event) == {i \in DOMAIN hlog : hlog[i] = event}

\* C16: a request being handled is eventually answered; the answer is a 500
\* only when validation or a database write failed, never because a token,
\* recommendation, search or audio-feature call failed; and a success
\* response lists one record per track getRecommendations returned, so none
\* when it returned the empty sequence.
C16_CompletesWhenDegraded ==
    /\ [](Answered /\ response[1].status = 500 =>
              response[1].error \in {"validation", "persistence"})
    /\ [](Answered /\ response[1].status = 200 =>
              /\ Len(response[1].recommendations) = Len(result)
              /\ \A i \in DOMAIN result :
                     response[1].recommendations[i].spotifyTrackId = result[i])
    /\ (hpc > 0) ~> Answered

\* every token exchange of the request failed and it was answered 200 with
\* no recommendation
C16_Witness ==
    /\ Answered /\ response[1].status = 200
    /\ variant = "routes-simple"
    /\ hist.authFailures = 4 /\ hist.tokenExchanges = 4
    /\ stored.moodEntry /\ stored.aiReflection
    /\ response[1].recommendations = <<>>

SearchPending == op = "search" /\ pc # "idle"

\* C21: the n-th search of the fallback queries the n-th derived term, with
\* the limit ceil(10 / number of derived terms), and a search is pending
\* only while fewer than 10 tracks have been accumulated.
C21_SearchOrderLimitStop ==
    SearchPending =>
        /\ termIdx = hist.searchCalls
        /\ termIdx \in 1..3
        /\ request.endpoint = "search"
        /\ request.q = searchTerms[termIdx]
        /\ request.limit * Len(searchTerms) >= 10
        /\ (request.limit - 1) * Len(searchTerms) < 10
        /\ Len(allTracks) < 10

\* two searches of five tracks each reached 10: no third search was made
C21_Witness ==
    /\ Finished /\ hist.searchCalls = 2 /\ termIdx = 2
    /\ Len(searchTerms) = 4 /\ request.limit = 3
    /\ Len(allTracks) = 10

\* this step is the failure of a pending search: its token exchange fails,
\* or the catalog request fails (seen when it is the invocation's first
\* catalog failure)
SearchFailedStep ==
    /\ SearchPending
    /\ \/ hist'.authFailures > hist.authFailures
       \/ ~hist.apiFailed /\ hist'.apiFailed

\* C22: a failed search adds nothing, throws nothing and does not end the
\* loop: when it was not the third search, the next term is searched in the
\* same invocation; and the result of the fallback holds every accumulated
\* track id whenever at most 10 distinct ids were accumulated.
C22_PartialSearchFailure ==
    /\ [][ SearchFailedStep =>
             /\ allTracks' = allTracks
             /\ outcome' # "threw"
             /\ IF termIdx < 3
                THEN /\ op' = "search" /\ pc' # "idle"
                     /\ termIdx' = termIdx + 1
                     /\ request'.q = searchTerms[termIdx + 1]
                ELSE /\ pc' = "idle" /\ outcome' = "returned" ]_vars
    /\ []((Finished /\ hist.searchCalls > 0
            /\ Cardinality(Range(allTracks)) <= 10) =>
              Range(result) = Range(allTracks))

\* the token exchange of one search failed, the other two searches were
\* requested, and the five tracks one of them returned are the result
C22_Witness ==
    /\ Finished /\ outcome = "returned"
    /\ hist.officialRequests = 1 /\ hist.authFailures = 1
    /\ hist.searchCalls = 3 /\ hist.searchRequests = 2
    /\ result = <<2, 3, 4, 5, 6>>

\* C23: in the index build, the record persisted for track i holds the
\* energy and valence of audioFeatures[i] as they are (0 included) when that
\* entry is present, and 0.5 (5 tenths) for both when it is absent.
C23_FeaturesStoredAsIs ==
    variant = "index" =>
        \A i \in DOMAIN stored.recommendations :
            IF i \in DOMAIN audioFeatures /\ Len(audioFeatures[i]) > 0
            THEN /\ stored.recommendations[i].energy = audioFeatures[i][1].energy
                 /\ stored.recommendations[i].valence = audioFeatures[i][1].valence
            ELSE /\ stored.recommendations[i].energy = 5
                 /\ stored.recommendations[i].valence = 5

\* C24: a caller that found the cache empty or expired is never waiting for
\* another caller: it has its own exchange in flight or has finished with
\* it; a caller whose exchange succeeded returns the token that exchange
\* was granted; and a caller throws only when its own exchange failed.
C24_IndependentExchanges ==
    \A c \in Callers :
        /\ callers[c].pc # "waiting"
        /\ callers[c].observed = "miss" =>
               callers[c].pc \in {"fetching", "returned", "threw"}
        /\ (callers[c].observed = "miss" /\ callers[c].pc = "returned") =>
               /\ callers[c].own # null
               /\ callers[c].ret = callers[c].own
               /\ callers[c].ret \in grants
        /\ callers[c].pc = "threw" =>
               callers[c].observed = "miss" /\ callers[c].own = null

\* both callers missed the cache, the second while the first was in
\* flight; each returned its own token and the cache holds the later one
C24_Witness ==
    /\ callers[1].observed = "miss" /\ callers[2].observed = "miss"
    /\ callers[2].raced
    /\ callers[1].pc = "returned" /\ callers[2].pc = "returned"
    /\ callers[1].ret = "tokA" /\ callers[2].ret = "tokB"
    /\ accessToken = "tokA"

\* caller c calls getAccessToken in this step
RaceCallStep(c) ==
    /\ callers[c].pc \in {"idle", "returned", "threw"}
    /\ callers'[c] # callers[c]

\* C29: a token cached with a declared TTL of 60 seconds or less has an
\* expiry that is not after the moment it was stored, and while it is the
\* cached token every getAccessToken call misses the cache and starts a
\* new exchange; a call served from the cache is served a token whose TTL
\* was above 60 seconds.
C29_ShortTtlNeverServed ==
    /\ []((accessToken # null /\ issued.ttl <= 60) =>
              tokenExpires <= issued.at /\ issued.at <= now)
    /\ [][ \A c \in Callers : RaceCallStep(c) =>
               /\ issued.ttl <= 60 =>
                      /\ callers'[c].observed = "miss"
                      /\ callers'[c].pc = "fetching"
               /\ callers'[c].observed = "hit" =>
                      issued.ttl > 60 /\ callers'[c].ret = accessToken ]_vars

\* a token of TTL 30 is cached, and a call made after it was stored is
\* exchanging again
C29_Witness ==
    /\ accessToken # null /\ issued.ttl = 30 /\ now > issued.at
    /\ callers[1].pc = "returned" /\ callers[1].own = accessToken
    /\ ~callers[1].raced
    /\ callers[2].pc = "fetching" /\ ~callers[2].raced

\* C25: the structured request issued for a request being handled carries,
\* in the routes-new build, the entry's valence as target_energy and its
\* energy as target_valence, and in the index and routes-simple builds the
\* entry's energy as target_energy and its valence as target_valence; so
\* for an entry whose energy differs from its valence the targets differ
\* between routes-new and the other builds.
C25_VariantsDisagreeOnOrder ==
    (hpc > 0 /\ request.endpoint = "recommendations") =>
        IF variant = "routes-new"
        THEN /\ request.target_energy = validatedData.valence
             /\ request.target_valence = validatedData.energy
             /\ validatedData.energy # validatedData.valence =>
                    request.target_energy # validatedData.energy
        ELSE /\ request.target_energy = validatedData.energy
             /\ request.target_valence = validatedData.valence

\* routes-new has asked for target_energy 9 for an entry of energy 2
C25_Witness ==
    /\ hpc > 0 /\ variant = "routes-new"
    /\ request.endpoint = "recommendations"
    /\ validatedData = [energy |-> 2, valence |-> 9]
    /\ request.target_energy = 9 /\ request.target_valence = 2

\* the catalog requests the invocation has issued
Issued(h) == h.officialRequests + h.searchRequests

\* C26: one getRecommendations invocation issues at most one structured
\* request; while that request is pending no search has been called or
\* requested; each of the at most three searched terms is requested at most
\* once; and a step of the invocation issues at most one catalog request,
\* which is then the only one pending.
C26_SequentialNoRetry ==
    /\ [](/\ hist.officialRequests <= 1
          /\ hist.searchRequests <= hist.searchCalls
          /\ hist.searchCalls \in {0, termIdx}
          /\ termIdx <= 3
          /\ (op = "official" /\ pc # "idle") =>
                 hist.searchCalls = 0 /\ hist.searchRequests = 0)
    /\ [][ (pc # "idle" /\ Issued(hist') > Issued(hist)) =>
               /\ Issued(hist') = Issued(hist) + 1
               /\ pc' = "reqWait" ]_vars

\* a finished invocation that met a catalog failure: one structured
\* request and three search requests, none repeated
C26_Witness ==
    /\ Finished /\ hist.apiFailed
    /\ hist.officialRequests = 1 /\ hist.searchRequests = 3
    /\ hist.searchCalls = 3 /\ result = <<>>

\* the number of non-empty hints of the invocation
NonEmptyHints == Len(SelectSeq(genres, LAMBDA x : Len(x) > 0))

FailureStep ==
    /\ pc # "idle"
    /\ \/ hist'.authFailures > hist.authFailures
       \/ ~hist.apiFailed /\ hist'.apiFailed

\* C28: a failed token exchange and a failed catalog request leave
\* accessToken and tokenExpires as they were; when the cached token was
\* still valid, the next catalog call of the invocation is served that
\* token from the cache.
C28_FailuresKeepTheCache ==
    [][ FailureStep =>
          /\ accessToken' = accessToken
          /\ tokenExpires' = tokenExpires
          /\ (CachedTokenValid /\ pc' # "idle") =>
                 /\ pc' = "reqWait"
                 /\ token' = accessToken
                 /\ hist'.cacheHits = hist.cacheHits + 1
                 /\ hist'.tokenExchanges = hist.tokenExchanges ]_vars

\* the structured request made with the cached token failed, and the first
\* search is being made with the same cached token
C28_Witness ==
    /\ hist.apiFailed /\ hist.tokenExchanges = 0 /\ hist.cacheHits = 2
    /\ op = "search" /\ pc = "reqWait" /\ termIdx = 1
    /\ token = accessToken /\ accessToken # null

\* the responses the handler has sent for the request
Responses == At("res.json") \cup At("res.status(500)")

\* C30: the handler persists the mood entry before the AI reflection and
\* the AI reflection before any recommendation record; whatever a request
\* has persisted stays stored, also when a later step fails and the answer
\* is a 500; and a request is answered once, at its end.
C30_OrderNoRollbackOneResponse ==
    /\ \A j \in At("AiReflection persisted") :
          \E i \in At("MoodEntry persisted") : i < j
    /\ \A j \in At("SpotifyRecommendation persisted") :
          \E i \in At("AiReflection persisted") : i < j
    /\ stored.moodEntry <=> At("MoodEntry persisted") # {}
    /\ stored.aiReflection <=> At("AiReflection persisted") # {}
    /\ Len(stored.recommendations) > 0 <=>
          At("SpotifyRecommendation persisted") # {}
    /\ Cardinality(Responses) <= 1
    /\ hpc > 0 => Responses = {} /\ response = <<>>
    /\ Answered => Responses = {Len(hlog)}
    /\ (Answered /\ response[1].error = "persistence") =>
          /\ response[1].status = 500
          /\ \/ ~stored.moodEntry
             \/ ~stored.aiReflection
             \/ Len(stored.recommendations) < Len(spotifyTracks)

\* the recommendation write failed after the entry, the reflection and
\* some records were stored: the answer is a 500 and they all remain
C30_Witness ==
    /\ Answered /\ response[1].status = 500
    /\ stored.moodEntry /\ stored.aiReflection
    /\ Len(stored.recommendations) > 0
    /\ Len(stored.recommendations) < Len(spotifyTracks)

====
